---- MODULE Spec2Model ----
(***************************************************************************)
(* Model of the Stripe subscription service (subscription pricing, the     *)
(* 'setup_intent.succeeded' webhook, the 'stripe-subscription' job queue   *)
(* and createSubscriptions) and of the invoice service (the                *)
(* 'generate-invoice' job queue and createAndSaveInvoice).                 *)
(*                                                                         *)
(* Optional values (undefined / null in the source) are sets with at most  *)
(* one element: {} is undefined, {x} is the value x.  Dates are day        *)
(* numbers.  Amounts the source computes with "/" are exact rationals      *)
(* [n, d], so that only Math.floor rounds.                                 *)
(***************************************************************************)
EXTENDS Integers, Sequences, FiniteSets, TLC

VARIABLES
    now,            \* the clock read by `new Date()`
    request,        \* a pricing request that waits for its answer
    call,           \* the last call of getSubscriptionPricing: arguments and outcome
    options,        \* plugin options: disableWebhookSignatureChecking
    orderState,     \* order code -> state of the order
    payments,       \* order code -> payments added with addPaymentToOrder
    jobs,           \* the 'stripe-subscription' queue: sequence of jobs
    subscriptions,  \* subscriptions created in Stripe, in order of creation
    history,        \* order-history notes, in order of creation
    webhook,        \* the last run of handlePaymentCompleteEvent
    deliveries,     \* webhooks delivered so far
    lineRun,        \* the last round of the loop of createSubscriptions
    invoiceEnabled, \* InvoiceConfigEntity.enabled of the channel
    invoiceJobs,    \* the 'generate-invoice' queue: sequence of jobs
    invoices,       \* rows of InvoiceEntity, in order of saving
    stored          \* number of PDFs handed to storageStrategy.save

vars == <<now, request, call, options, orderState, payments, jobs, subscriptions,
          history, webhook, deliveries, lineRun,
          invoiceEnabled, invoiceJobs, invoices, stored>>

stripeVars == <<options, orderState, payments, jobs, subscriptions, history,
                webhook, deliveries, lineRun>>
invoiceVars == <<invoiceEnabled, invoiceJobs, invoices, stored>>

\* --------------------------------------------------------------- bounds

MaxDay == 1
MaxDate == 8
MaxDownpayment == 2
MaxWebhooks == 2
MaxInvoiceJobs == 2

\* ------------------------------------------------------ optional values

Undefined == {}
Some(x) == {x}
Get(o) == CHOOSE x \in o : TRUE
Option(S) == {Undefined} \cup {Some(x) : x \in S}

\* ------------------------------------------------------------ rationals

Rat(a, b) == [n |-> a, d |-> b]
RatMulInt(r, k) == Rat(r.n * k, r.d)
RatDivInt(r, k) == Rat(r.n, r.d * k)
RatAddInt(r, k) == Rat(r.n + k * r.d, r.d)
\* k / r for an integer k and a rational r > 0
IntDivRat(k, r) == Rat(k * r.d, r.n)
\* k - r
IntSubRat(k, r) == Rat(k * r.d - r.n, r.d)
RatEq(r, s) == r.n * s.d = s.n * r.d
RatLeq(r, s) == r.n * s.d <= s.n * r.d
\* Math.floor
Floor(r) == r.n \div r.d

\* ------------------------------------------------------------ schedules

\* The statically configured schedules, looked up by name.
schedules ==
    { [name |-> "monthly", billingInterval |-> "month", billingCount |-> 1,
       durationInterval |-> "month", durationCount |-> 1,
       downpayment |-> 0, startDate |-> "start"],
      [name |-> "quarter", billingInterval |-> "month", billingCount |-> 1,
       durationInterval |-> "month", durationCount |-> 3,
       downpayment |-> 2, startDate |-> "start"],
      [name |-> "weeks", billingInterval |-> "week", billingCount |-> 2,
       durationInterval |-> "week", durationCount |-> 3,
       downpayment |-> 1, startDate |-> "end"],
      [name |-> "mixed", billingInterval |-> "month", billingCount |-> 1,
       durationInterval |-> "year", durationCount |-> 1,
       downpayment |-> 0, startDate |-> "start"] }

\* Product variants with their subscription custom field.
Variants ==
    { [id |-> "v1", price |-> 12, subscriptionSchedule |-> "monthly"],
      [id |-> "v2", price |-> 10, subscriptionSchedule |-> "quarter"],
      [id |-> "v3", price |-> 7, subscriptionSchedule |-> "weeks"],
      [id |-> "v4", price |-> 9, subscriptionSchedule |-> "mixed"],
      [id |-> "v5", price |-> 5, subscriptionSchedule |-> "gone"] }

VariantIds == {v.id : v \in Variants} \cup {"v404"}

\* variantService.findOne
findOne(id) == {v \in Variants : v.id = id}

\* Days in one interval of the model's calendar.
daysInInterval(interval) ==
    CASE interval = "day" -> 1
      [] interval = "week" -> 7
      [] interval = "month" -> 30
      [] interval = "year" -> 365

\* util.getDayRate: the total price over the days of one duration cycle.
getDayRate(totalPrice, durationInterval, durationCount) ==
    RatDivInt(totalPrice, daysInInterval(durationInterval) * durationCount)

\* util.getNextStartDate: the next date on or after `date` that matches the
\* schedule's anchor, the first or the last day of a billing interval.
getNextStartDate(date, interval, startDate) ==
    LET len == daysInInterval(interval)
        offset == IF startDate = "end" THEN len - 1 ELSE 0
    IN  CHOOSE d \in date .. (date + len) :
            /\ d % len = offset
            /\ \A e \in date .. (d - 1) : e % len # offset

\* util.getDaysUntilNextStartDate: whole days from `date` to `nextStartDate`.
getDaysUntilNextStartDate(date, nextStartDate) == nextStartDate - date

\* ------------------------------------------------ getSubscriptionPricing

\* input?.field
InputField(input, field) ==
    IF input = Undefined THEN Undefined ELSE Get(input)[field]

\* getSchedule: the schedule named by the variant, {} where the source throws.
getSchedule(variant) ==
    {s \in schedules : s.name = variant.subscriptionSchedule}

IntervalsDiffer(schedule) ==
    schedule.billingInterval # schedule.durationInterval

billingsPerDurationOf(schedule) ==
    Rat(schedule.durationCount, schedule.billingCount)

\* `input?.downpayment || input?.downpayment === 0`: a number is truthy unless 0.
EffectiveDownpaymentNoZero(input, schedule) ==
    LET dp == InputField(input, "downpayment")
    IN  IF dp # Undefined /\ Get(dp) # 0 THEN Get(dp) ELSE schedule.downpayment

EffectiveDownpayment(input, schedule) ==
    LET dp == InputField(input, "downpayment")
    IN  IF (dp # Undefined /\ Get(dp) # 0) \/ (dp # Undefined /\ Get(dp) = 0)
        THEN Get(dp)
        ELSE schedule.downpayment

RecurringPriceCeil(price, downpayment, billingsPerDuration) ==
    LET r == IntSubRat(price, IntDivRat(downpayment, billingsPerDuration))
    IN  0 - Floor(Rat(0 - r.n, r.d))

RecurringPrice(price, downpayment, billingsPerDuration) ==
    Floor(IntSubRat(price, IntDivRat(downpayment, billingsPerDuration)))

\* `input?.startDate || now`: a Date is always truthy.
DaysUntilStart(input, date, subscriptionStartDate) ==
    LET sd == InputField(input, "startDate")
    IN  getDaysUntilNextStartDate(IF sd # Undefined THEN Get(sd) ELSE date,
                                  subscriptionStartDate)

AmountDueNowWithoutDownpayment(downpayment, totalProratedAmount) ==
    totalProratedAmount

AmountDueNow(downpayment, totalProratedAmount) ==
    RatAddInt(totalProratedAmount, downpayment)

Thrown(e) == [error |-> e, value |-> Undefined]
Returned(v) == [error |-> "none", value |-> Some(v)]

PricingOf(input, variant, schedule, date) ==
    LET billingsPerDuration == billingsPerDurationOf(schedule)
        totalSubscriptionPrice == RatMulInt(billingsPerDuration, variant.price)
        dayRate == getDayRate(totalSubscriptionPrice, schedule.durationInterval,
                              schedule.durationCount)
        downpayment == EffectiveDownpayment(input, schedule)
        recurringPrice == RecurringPrice(variant.price, downpayment, billingsPerDuration)
        subscriptionStartDate ==
            getNextStartDate(date, schedule.billingInterval, schedule.startDate)
        daysUntilStart == DaysUntilStart(input, date, subscriptionStartDate)
        totalProratedAmount == RatMulInt(dayRate, daysUntilStart)
    IN  [downpayment |-> downpayment,
         totalProratedAmount |-> totalProratedAmount,
         proratedDays |-> daysUntilStart,
         dayRate |-> dayRate,
         recurringPrice |-> recurringPrice,
         interval |-> schedule.billingInterval,
         intervalCount |-> schedule.billingCount,
         amountDueNow |-> AmountDueNow(downpayment, totalProratedAmount),
         subscriptionStartDate |-> subscriptionStartDate]

\* The checks made on the resolved schedule before any price is computed.
ScheduleChecksSkipped(input, variant, schedule, date) ==
    Returned(PricingOf(input, variant, schedule, date))

ScheduleChecks(input, variant, schedule, date) ==
    IF IntervalsDiffer(schedule)
    THEN Thrown("NotImplemented")
    ELSE Returned(PricingOf(input, variant, schedule, date))

\* The lookups of the variant and of its schedule, with the errors they throw.
ResolveVariantLate(input, variant, date) ==
    LET id == InputField(input, "productVariantId")
        found == IF variant # Undefined THEN variant
                 ELSE IF id = Undefined THEN Undefined ELSE findOne(Get(id))
    IN  IF found = Undefined THEN Thrown("NotFound")
        ELSE IF variant = Undefined /\ id = Undefined THEN Thrown("InputError")
        ELSE IF getSchedule(Get(found)) = {} THEN Thrown("NoSchedule")
        ELSE ScheduleChecks(input, Get(found), Get(getSchedule(Get(found))), date)

getSubscriptionPricing(input, variant, date) ==
    IF variant = Undefined /\ InputField(input, "productVariantId") = Undefined
    THEN Thrown("InputError")
    ELSE LET found == IF variant # Undefined THEN variant
                      ELSE findOne(Get(InputField(input, "productVariantId")))
         IN  IF found = Undefined THEN Thrown("NotFound")
             ELSE IF getSchedule(Get(found)) = {} THEN Thrown("NoSchedule")
             ELSE ScheduleChecks(input, Get(found),
                                 Get(getSchedule(Get(found))), date)

\* The inputs a caller can pass.
PricingInputs ==
    Option([productVariantId : Option(VariantIds),
            downpayment : Option(0 .. MaxDownpayment),
            startDate : Option(0 .. MaxDate)])

\* ------------------------------------------------------- the data served

Orders == {"o1", "o2"}

\* order.lines: the product variant of each order line.
OrderLines(orderCode) ==
    IF orderCode = "o1"
    THEN <<[id |-> "v2", price |-> 10, subscriptionSchedule |-> "quarter"]>>
    ELSE <<[id |-> "v1", price |-> 12, subscriptionSchedule |-> "monthly"],
           [id |-> "v5", price |-> 5, subscriptionSchedule |-> "gone"]>>

\* ------------------------------------------------------------ job queue

\* JobQueue.add: a new job waits in state PENDING.
NewJob(orderCode, customer, retries) ==
    [orderCode |-> orderCode, stripeCustomerId |-> customer, state |-> "PENDING",
     attempts |-> 0, retries |-> retries, line |-> 0]

\* The retries handlePaymentCompleteEvent asks of the queue.
SubscriptionJobRetries == 1

\* A failed job is run again while its retries are not used up.
FailedState(job) ==
    IF job.retries >= job.attempts THEN "RETRYING" ELSE "FAILED"

Waiting(job) == job.state \in {"PENDING", "RETRYING"}

\* ------------------------------------------ handlePaymentCompleteEvent

WebhookTypes == {"setup_intent.succeeded", "payment_intent.succeeded"}

\* One run of the handler: the webhook it was given, the error it threw and
\* the calls it made, in order.
Ran(type, orderCode, signatureValid, error, effects) ==
    Some([type |-> type, orderCode |-> orderCode,
          signatureValid |-> signatureValid, error |-> error,
          effects |-> effects])

ProcessesAny(type) == TRUE

\* The handler processes one type of webhook and returns on any other.
Processes(type) == type = "setup_intent.succeeded"

SignatureCheckedNever == FALSE

\* The signature is validated unless the plugin options disable it.
SignatureChecked == ~options.disableWebhookSignatureChecking

\* stripeClient.validateWebhookSignature returns on a valid signature and
\* throws on any other.
validateWebhookSignature(signatureValid) == signatureValid

NeedsTransitionAlways(state) == TRUE

\* The order is moved to ArrangingPayment unless it is there already.
NeedsTransition(state) == state # "ArrangingPayment"

\* What the environment answers to one run of the handler: every call
\* succeeds, or the first call that fails.
Answers == {"ok", "noPaymentMethod", "badSignature", "transitionError",
            "addPaymentError"}

\* jobQueue.add of the handler.
Enqueue(queue, orderCode, customer) ==
    Append(queue, NewJob(orderCode, customer, SubscriptionJobRetries))

\* The handler from jobQueue.add on: the job is added first, then the order is
\* moved to ArrangingPayment unless it is there, then the payment is added.
Settle(type, code, customer, prefix, answer) ==
    LET moves == NeedsTransition(orderState[code])
        valid == answer # "badSignature"
        moved == answer # "transitionError" /\ orderState[code] = "AddingItems"
        paid == answer # "addPaymentError"
        after == prefix \o <<"enqueue">>
                 \o (IF moves THEN <<"transition">> ELSE <<>>)
    IN  /\ jobs' = Enqueue(jobs, code, customer)
        /\ IF moves /\ ~moved
           THEN /\ webhook' = Ran(type, Some(code), valid, "TransitionError", after)
                /\ UNCHANGED <<orderState, payments>>
           ELSE IF ~paid
           THEN /\ webhook' = Ran(type, Some(code), valid, "AddPaymentError",
                                  after \o <<"addPayment">>)
                /\ orderState' = [orderState EXCEPT ![code] = "ArrangingPayment"]
                /\ UNCHANGED payments
           ELSE /\ webhook' = Ran(type, Some(code), valid, "none",
                                  after \o <<"addPayment">>)
                /\ orderState' = [orderState EXCEPT ![code] = "PaymentSettled"]
                /\ payments' = [payments EXCEPT ![code] = @ + 1]

handlePaymentCompleteEvent(type, orderCode, channelToken, customer, answer) ==
    /\ deliveries < MaxWebhooks
    /\ deliveries' = deliveries + 1
    /\ UNCHANGED <<now, request, call, options, subscriptions, lineRun>>
    /\ UNCHANGED invoiceVars
    /\ LET valid == answer # "badSignature"
       IN
       IF ~Processes(type)
       THEN /\ webhook' = Ran(type, orderCode, valid, "none", <<>>)
            /\ UNCHANGED <<orderState, payments, jobs, history>>
       ELSE IF orderCode = Undefined
       THEN /\ webhook' = Ran(type, orderCode, valid, "MissingOrderCode", <<>>)
            /\ UNCHANGED <<orderState, payments, jobs, history>>
       ELSE IF channelToken = Undefined
       THEN /\ webhook' = Ran(type, orderCode, valid, "MissingChannelToken", <<>>)
            /\ UNCHANGED <<orderState, payments, jobs, history>>
       ELSE IF Get(orderCode) \notin Orders
       THEN /\ webhook' = Ran(type, orderCode, valid, "OrderNotFound",
                              <<"findOrder">>)
            /\ UNCHANGED <<orderState, payments, jobs, history>>
       ELSE IF customer = Undefined
       THEN /\ webhook' = Ran(type, orderCode, valid, "NoCustomer",
                              <<"findOrder", "history">>)
            /\ history' = Append(history, [orderCode |-> Get(orderCode),
                                           note |-> "NoCustomer"])
            /\ UNCHANGED <<orderState, payments, jobs>>
       ELSE IF answer = "noPaymentMethod"
       THEN /\ webhook' = Ran(type, orderCode, valid, "NoPaymentMethod",
                              <<"findOrder">>)
            /\ UNCHANGED <<orderState, payments, jobs, history>>
       ELSE IF SignatureChecked /\ ~validateWebhookSignature(valid)
       THEN /\ webhook' = Ran(type, orderCode, valid, "InvalidSignature",
                              <<"findOrder", "validateSignature">>)
            /\ UNCHANGED <<orderState, payments, jobs, history>>
       ELSE /\ Settle(type, Get(orderCode), Get(customer),
                      IF SignatureChecked
                      THEN <<"findOrder", "validateSignature">>
                      ELSE <<"findOrder">>,
                      answer)
            /\ history' = history

\* ------------------------------------------------- createSubscriptions

HasDownpaymentAlways(pricing) == TRUE

\* if (pricing.downpayment): a downpayment of zero creates no subscription.
HasDownpayment(pricing) == pricing.downpayment # 0

\* One round of the loop over order.lines, on the line's variant: the pricing,
\* the subscriptions created, the history notes written and whether the round
\* ends by throwing.
LineOutcome(variant, date, recurringOk, downpaymentOk) ==
    LET result == getSubscriptionPricing(Undefined, variant, date)
        pricing == Get(result.value)
        schedule == Get(getSchedule(Get(variant)))
        recurring ==
            [kind |-> "recurring", amount |-> pricing.recurringPrice,
             interval |-> pricing.interval,
             intervalCount |-> pricing.intervalCount,
             startDate |-> pricing.subscriptionStartDate, proration |-> TRUE]
        downpayment ==
            [kind |-> "downpayment", amount |-> pricing.downpayment,
             interval |-> schedule.durationInterval,
             intervalCount |-> schedule.durationCount,
             startDate |-> pricing.subscriptionStartDate, proration |-> FALSE]
    IN  IF result.error # "none"
        THEN [result |-> result, subscriptions |-> <<>>, notes |-> <<>>,
              thrown |-> TRUE]
        ELSE IF ~recurringOk
        THEN [result |-> result, subscriptions |-> <<>>, notes |-> <<"Failed">>,
              thrown |-> TRUE]
        ELSE IF ~HasDownpayment(pricing)
        THEN [result |-> result, subscriptions |-> <<recurring>>,
              notes |-> <<"Created">>, thrown |-> FALSE]
        ELSE IF ~downpaymentOk
        THEN [result |-> result, subscriptions |-> <<recurring>>,
              notes |-> <<"Created", "Failed">>, thrown |-> TRUE]
        ELSE [result |-> result, subscriptions |-> <<recurring, downpayment>>,
              notes |-> <<"Created", "CreatedDownpayment">>, thrown |-> FALSE]

\* A subscription as Stripe keeps it, with the job run and line it came from.
Subscription(i, line, created) ==
    [job |-> i, attempt |-> jobs[i].attempts, orderCode |-> jobs[i].orderCode,
     line |-> line, kind |-> created.kind, amount |-> created.amount,
     interval |-> created.interval, intervalCount |-> created.intervalCount,
     startDate |-> created.startDate, proration |-> created.proration]

Note(orderCode, note) == [orderCode |-> orderCode, note |-> note]

JobFails(i) ==
    jobs' = [jobs EXCEPT ![i].state = FailedState(jobs[i]), ![i].line = 0]

\* The queue starts a waiting job; createSubscriptions looks up the order, the
\* Stripe handler and the Stripe customer and creates the Stripe product.
JobStart(i, preludeOk) ==
    /\ Waiting(jobs[i])
    /\ LET started == [jobs[i] EXCEPT !.attempts = @ + 1]
       IN  jobs' = [jobs EXCEPT ![i] =
                      IF preludeOk
                      THEN [started EXCEPT !.state = "RUNNING", !.line = 1]
                      ELSE [started EXCEPT !.state = FailedState(started)]]
    /\ UNCHANGED <<now, request, call, options, orderState, payments, subscriptions,
                   history, webhook, deliveries, lineRun>>
    /\ UNCHANGED invoiceVars

\* createSubscriptions works on the next order line of a running job.
JobLine(i, recurringOk, downpaymentOk) ==
    /\ jobs[i].state = "RUNNING"
    /\ jobs[i].line <= Len(OrderLines(jobs[i].orderCode))
    /\ LET code == jobs[i].orderCode
           line == jobs[i].line
           variant == OrderLines(code)[line]
           outcome == LineOutcome(Some(variant), now, recurringOk, downpaymentOk)
       IN  /\ lineRun' = Some([variant |-> Some(variant), date |-> now,
                               outcome |-> outcome])
           /\ subscriptions' = subscriptions \o
                  [k \in 1 .. Len(outcome.subscriptions) |->
                      Subscription(i, line, outcome.subscriptions[k])]
           /\ history' = history \o
                  [k \in 1 .. Len(outcome.notes) |-> Note(code, outcome.notes[k])]
           /\ IF outcome.thrown
              THEN JobFails(i)
              ELSE jobs' = [jobs EXCEPT ![i].line = @ + 1]
    /\ UNCHANGED <<now, request, call, options, orderState, payments, webhook, deliveries>>
    /\ UNCHANGED invoiceVars

\* The loop is over: the job's process function returns.
JobDone(i) ==
    /\ jobs[i].state = "RUNNING"
    /\ jobs[i].line > Len(OrderLines(jobs[i].orderCode))
    /\ jobs' = [jobs EXCEPT ![i].state = "COMPLETED", ![i].line = 0]
    /\ UNCHANGED <<now, request, call, options, orderState, payments, subscriptions,
                   history, webhook, deliveries, lineRun>>
    /\ UNCHANGED invoiceVars

\* ---------------------------------------------------------------- clock

Tick ==
    /\ now < MaxDay
    /\ now' = now + 1
    /\ UNCHANGED <<request, call, options, orderState, payments, jobs, subscriptions,
                   history, webhook, deliveries, lineRun>>
    /\ UNCHANGED invoiceVars

\* The pricing request is answered: getSubscriptionPricing runs on it.
PricingCall ==
    /\ request # Undefined
    /\ call' = Some([input |-> Get(request).input,
                     variant |-> Get(request).variant,
                     date |-> now,
                     result |-> getSubscriptionPricing(Get(request).input,
                                                       Get(request).variant, now)])
    /\ request' = Undefined
    /\ UNCHANGED now
    /\ UNCHANGED stripeVars
    /\ UNCHANGED invoiceVars

\* The loop body of createSubscriptions runs on the requested variant; it
\* passes no input.
LineCall(recurringOk, downpaymentOk) ==
    /\ request # Undefined
    /\ Get(request).input = Undefined
    /\ lineRun' = Some([variant |-> Get(request).variant, date |-> now,
                        outcome |-> LineOutcome(Get(request).variant, now,
                                                recurringOk, downpaymentOk)])
    /\ request' = Undefined
    /\ UNCHANGED <<now, call, options, orderState, payments, jobs, subscriptions,
                   history, webhook, deliveries>>
    /\ UNCHANGED invoiceVars

\* ------------------------------------------------------ invoice service

\* InvoiceService.retries
InvoiceRetries == 10

\* The OrderPlacedEvent subscription: a generate-invoice job is added when the
\* plugin is enabled for the channel.
OrderPlaced(orderCode) ==
    /\ Len(invoiceJobs) < MaxInvoiceJobs
    /\ invoiceJobs' =
           IF invoiceEnabled
           THEN Append(invoiceJobs,
                       [orderCode |-> orderCode, state |-> "PENDING",
                        attempts |-> 0, retries |-> InvoiceRetries,
                        existingInvoice |-> FALSE, enabled |-> FALSE])
           ELSE invoiceJobs
    /\ UNCHANGED <<invoiceEnabled, invoices, stored>>
    /\ UNCHANGED <<now, request, call>>
    /\ UNCHANGED stripeVars

\* upsertConfig
UpsertConfig(enabled) ==
    /\ invoiceEnabled' = enabled
    /\ UNCHANGED <<invoiceJobs, invoices, stored>>
    /\ UNCHANGED <<now, request, call>>
    /\ UNCHANGED stripeVars

\* getInvoice
getInvoice(orderCode) ==
    \E k \in 1 .. Len(invoices) : invoices[k].orderCode = orderCode

\* getLatestInvoiceNumber, 0 for none
getLatestInvoiceNumber ==
    IF invoices = <<>> THEN 0
    ELSE CHOOSE n \in {invoices[k].invoiceNumber : k \in 1 .. Len(invoices)} :
             \A k \in 1 .. Len(invoices) : invoices[k].invoiceNumber <= n

\* The queue starts a waiting job; createAndSaveInvoice reads the order, the
\* existing invoice and the config.
InvoiceRead(i) ==
    /\ Waiting(invoiceJobs[i])
    /\ invoiceJobs' = [invoiceJobs EXCEPT
                          ![i].state = "RUNNING",
                          ![i].attempts = @ + 1,
                          ![i].existingInvoice = getInvoice(invoiceJobs[i].orderCode),
                          ![i].enabled = invoiceEnabled]
    /\ UNCHANGED <<invoiceEnabled, invoices, stored>>
    /\ UNCHANGED <<now, request, call>>
    /\ UNCHANGED stripeVars

\* createAndSaveInvoice from its checks on: the PDF is generated and stored and
\* the invoice is saved, unless a check ends the call.
InvoiceSave(i, generated) ==
    /\ invoiceJobs[i].state = "RUNNING"
    /\ IF ~invoiceJobs[i].enabled
       THEN /\ invoiceJobs' = [invoiceJobs EXCEPT ![i].state = "COMPLETED"]
            /\ UNCHANGED <<invoices, stored>>
       ELSE IF invoiceJobs[i].existingInvoice \/ ~generated
       THEN /\ invoiceJobs' = [invoiceJobs EXCEPT
                                  ![i].state = FailedState(invoiceJobs[i])]
            /\ UNCHANGED <<invoices, stored>>
       ELSE /\ invoiceJobs' = [invoiceJobs EXCEPT ![i].state = "COMPLETED"]
            /\ stored' = stored + 1
            /\ invoices' = Append(invoices,
                                  [orderCode |-> invoiceJobs[i].orderCode,
                                   invoiceNumber |-> getLatestInvoiceNumber + 1])
    /\ UNCHANGED invoiceEnabled
    /\ UNCHANGED <<now, request, call>>
    /\ UNCHANGED stripeVars

\* ------------------------------------------------------- specifications

InitStripe ==
    /\ options \in [disableWebhookSignatureChecking : BOOLEAN]
    /\ orderState = [o \in Orders |-> "AddingItems"]
    /\ payments = [o \in Orders |-> 0]
    /\ jobs = <<>>
    /\ subscriptions = <<>>
    /\ history = <<>>
    /\ webhook = Undefined
    /\ deliveries = 0
    /\ lineRun = Undefined

InitInvoice ==
    /\ invoiceEnabled = FALSE
    /\ invoiceJobs = <<>>
    /\ invoices = <<>>
    /\ stored = 0

Init ==
    /\ now = 0
    /\ request = Undefined
    /\ call = Undefined
    /\ InitStripe
    /\ InitInvoice

\* A pricing request with any input, for any variant, on any date.
InitPricing ==
    /\ now \in 0 .. MaxDate
    /\ request \in {Some(r) : r \in [input : PricingInputs, variant : Option(Variants)]}
    /\ call = Undefined
    /\ InitStripe
    /\ InitInvoice

Webhook ==
    \E type \in WebhookTypes, orderCode \in Option(Orders \cup {"o404"}),
       channelToken \in Option({"ch"}), customer \in Option({"cus"}),
       answer \in Answers :
        handlePaymentCompleteEvent(type, orderCode, channelToken, customer, answer)

StartJob == \E i \in 1 .. Len(jobs), preludeOk \in BOOLEAN : JobStart(i, preludeOk)

RunLine ==
    \E i \in 1 .. Len(jobs), recurringOk \in BOOLEAN, downpaymentOk \in BOOLEAN :
        JobLine(i, recurringOk, downpaymentOk)

FinishJob == \E i \in 1 .. Len(jobs) : JobDone(i)

Next == Tick \/ Webhook \/ StartJob \/ RunLine \/ FinishJob

Spec == Init /\ [][Next]_vars

CreateLine ==
    \E recurringOk \in BOOLEAN, downpaymentOk \in BOOLEAN :
        LineCall(recurringOk, downpaymentOk)

NextPricing == PricingCall \/ CreateLine

SpecPricing == InitPricing /\ [][NextPricing]_vars

PlaceOrder == \E orderCode \in Orders : OrderPlaced(orderCode)

Configure == \E enabled \in BOOLEAN : UpsertConfig(enabled)

StartInvoiceJob == \E i \in 1 .. Len(invoiceJobs) : InvoiceRead(i)

FinishInvoiceJob ==
    \E i \in 1 .. Len(invoiceJobs), generated \in BOOLEAN : InvoiceSave(i, generated)

NextInvoice == PlaceOrder \/ Configure \/ StartInvoiceJob \/ FinishInvoiceJob

SpecInvoice == Init /\ [][NextInvoice]_vars

\* ------------------------------------------------------------ properties

\* The variant a call works on: the one passed, else the one found by id.
ResolvedVariant(c) ==
    IF c.variant # Undefined THEN c.variant
    ELSE IF InputField(c.input, "productVariantId") = Undefined THEN Undefined
    ELSE {v \in Variants : v.id = Get(InputField(c.input, "productVariantId"))}

\* The configured schedule of that variant, if any.
ResolvedSchedule(c) ==
    IF ResolvedVariant(c) = Undefined THEN Undefined
    ELSE {s \in schedules : s.name = Get(ResolvedVariant(c)).subscriptionSchedule}

ReturnedCalls == {c \in call : c.result.error = "none"}

\* C1: a call whose schedule has a billingInterval other than its
\* durationInterval returns no pricing: it fails with the not-implemented
\* error, whatever the price, the input and the date.
C1_MixedIntervalsFail ==
    \A c \in call : \A s \in ResolvedSchedule(c) :
        s.billingInterval # s.durationInterval
            => c.result.error = "NotImplemented" /\ c.result.value = Undefined

C1_Witness ==
    \E c \in call : \E s \in ResolvedSchedule(c) :
        /\ s.billingInterval # s.durationInterval
        /\ InputField(c.input, "downpayment") # Undefined
        /\ c.result.error = "NotImplemented"

\* C2: the pricing createSubscriptions computes for an order line equals, in
\* every field, the pricing of a preview call for the same variant on the same
\* date, whatever the preview's input.
C2_PreviewAgreesWithCreation ==
    \A r \in lineRun : \A input \in PricingInputs :
        r.variant # Undefined
        /\ InputField(input, "productVariantId") = Some(Get(r.variant).id)
            => getSubscriptionPricing(input, Undefined, r.date) = r.outcome.result

\* C3: at most one subscription-creation job of an order is pending or in
\* flight at any time.
C3_OneJobPerOrder ==
    \A o \in Orders :
        Cardinality({i \in 1 .. Len(jobs) :
                        /\ jobs[i].orderCode = o
                        /\ jobs[i].state \in {"PENDING", "RUNNING", "RETRYING"}}) <= 1

\* C4: at most one invoice is ever saved for an order code.
C4_OneInvoicePerOrder ==
    \A o \in Orders :
        Cardinality({k \in 1 .. Len(invoices) : invoices[k].orderCode = o}) <= 1

\* C5: every returned pricing has amountDueNow = downpayment +
\* totalProratedAmount and totalProratedAmount = proratedDays * dayRate.
C5_AmountDueNow ==
    \A c \in ReturnedCalls :
        LET p == Get(c.result.value)
        IN  /\ RatEq(p.amountDueNow, RatAddInt(p.totalProratedAmount, p.downpayment))
            /\ RatEq(p.totalProratedAmount, RatMulInt(p.dayRate, p.proratedDays))

C5_Witness ==
    \E c \in ReturnedCalls :
        LET p == Get(c.result.value)
        IN  /\ p.downpayment > 0
            /\ p.proratedDays > 0
            /\ p.dayRate.n > 0
            /\ RatEq(p.amountDueNow, RatAddInt(p.totalProratedAmount, p.downpayment))

\* C6: the returned downpayment is the input's downpayment whenever the input
\* has one, 0 included, and the schedule's downpayment only when it has none.
C6_Downpayment ==
    \A c \in ReturnedCalls :
        LET p == Get(c.result.value)
            dp == InputField(c.input, "downpayment")
        IN  p.downpayment = IF dp # Undefined THEN Get(dp)
                            ELSE Get(ResolvedSchedule(c)).downpayment

C6_Witness ==
    \E c \in ReturnedCalls :
        /\ InputField(c.input, "downpayment") = Some(0)
        /\ Get(ResolvedSchedule(c)).downpayment # 0
        /\ Get(c.result.value).downpayment = 0

\* C7: the returned recurringPrice is the greatest integer that does not exceed
\* variantPrice - downpayment / (durationCount / billingCount), and it is
\* variantPrice - downpayment when billingCount = durationCount.
C7_RecurringPrice ==
    \A c \in ReturnedCalls :
        LET p == Get(c.result.value)
            s == Get(ResolvedSchedule(c))
            price == Get(ResolvedVariant(c)).price
            exact == price * s.durationCount - p.downpayment * s.billingCount
        IN  /\ p.recurringPrice * s.durationCount <= exact
            /\ exact < (p.recurringPrice + 1) * s.durationCount
            /\ s.billingCount = s.durationCount
                   => p.recurringPrice = price - p.downpayment

C7_Witness ==
    \E c \in ReturnedCalls :
        LET p == Get(c.result.value)
            s == Get(ResolvedSchedule(c))
            price == Get(ResolvedVariant(c)).price
            exact == price * s.durationCount - p.downpayment * s.billingCount
        IN  /\ exact % s.durationCount # 0
            /\ p.recurringPrice * s.durationCount < exact

\* C8: every returned pricing has proratedDays >= 0 when the date of the call
\* is on or before the computed subscriptionStartDate, whatever the input.
C8_ProratedDaysNotNegative ==
    \A c \in ReturnedCalls :
        LET p == Get(c.result.value)
        IN  c.date <= p.subscriptionStartDate => p.proratedDays >= 0

\* C9: a call fails with the input error when it has neither a variant nor a
\* variant id, else with the not-found error when the id names no variant, else
\* with the no-schedule error when the variant's schedule is not configured;
\* a failed call returns no pricing, and when createSubscriptions made the call
\* the round throws with no subscription created for that order line.
C9_ErrorsInOrder ==
    /\ \A c \in call :
         LET noReference == c.variant = Undefined
                            /\ InputField(c.input, "productVariantId") = Undefined
         IN  /\ noReference => c.result.error = "InputError"
             /\ ~noReference /\ ResolvedVariant(c) = Undefined
                    => c.result.error = "NotFound"
             /\ ResolvedVariant(c) # Undefined /\ ResolvedSchedule(c) = Undefined
                    => c.result.error = "NoSchedule"
             /\ c.result.error # "none" => c.result.value = Undefined
    /\ \A r \in lineRun :
         LET c == [input |-> Undefined, variant |-> r.variant]
         IN  /\ r.variant = Undefined => r.outcome.result.error = "InputError"
             /\ ResolvedVariant(c) # Undefined /\ ResolvedSchedule(c) = Undefined
                    => r.outcome.result.error = "NoSchedule"
             /\ r.outcome.result.error # "none"
                    => /\ r.outcome.result.value = Undefined
                       /\ r.outcome.subscriptions = <<>>
                       /\ r.outcome.thrown

C9_Witness ==
    \E r \in lineRun :
        /\ r.variant # Undefined
        /\ r.outcome.result.error = "NoSchedule"
        /\ r.outcome.subscriptions = <<>>
        /\ r.outcome.thrown

\* C10: a subscription-creation job is tried once: no job is started a second
\* time after an attempt failed.
C10_TriedOnce ==
    \A i \in 1 .. Len(jobs) : jobs[i].attempts <= 1

\* A step that is one run of handlePaymentCompleteEvent.
WebhookRun == deliveries' = deliveries + 1

Before(effects, first, later) ==
    \A k \in 1 .. Len(effects) :
        effects[k] = later => \E j \in 1 .. k - 1 : effects[j] = first

\* C11: while signature checking is not disabled, a run of the handler on a
\* webhook with an invalid signature adds no job, leaves the state of every
\* order as it was and adds no payment, and in every run the signature is
\* validated before the job is added, the order moved or the payment added.
C11_SignatureFirst ==
    [][WebhookRun /\ ~options.disableWebhookSignatureChecking
        => \A w \in webhook' :
             /\ w.type = "setup_intent.succeeded" /\ ~w.signatureValid
                    => /\ jobs' = jobs
                       /\ orderState' = orderState
                       /\ payments' = payments
                       /\ w.error # "none"
             /\ \A later \in {"enqueue", "transition", "addPayment"} :
                    Before(w.effects, "validateSignature", later)]_vars

C11_Witness ==
    /\ ~options.disableWebhookSignatureChecking
    /\ \E w \in webhook :
        /\ w.type = "setup_intent.succeeded"
        /\ ~w.signatureValid
        /\ w.error = "InvalidSignature"
        /\ w.effects = <<"findOrder", "validateSignature">>

Made(effects, effect) == \E k \in 1 .. Len(effects) : effects[k] = effect

\* C12: in every run of the handler the job is added before the order is moved
\* and before the payment is added; a run that then fails at the transition or
\* at the payment leaves its job waiting in the queue, and no step ever takes a
\* job out of the queue; the transition is attempted exactly when the order is
\* not in ArrangingPayment, and the payment is added only after the transition
\* succeeded or was skipped.
C12_JobStaysQueued ==
    [][/\ Len(jobs') >= Len(jobs)
       /\ \A i \in 1 .. Len(jobs) : jobs'[i].orderCode = jobs[i].orderCode
       /\ WebhookRun
            => \A w \in webhook' :
                 /\ Before(w.effects, "enqueue", "transition")
                 /\ Before(w.effects, "enqueue", "addPayment")
                 /\ w.error \in {"TransitionError", "AddPaymentError"}
                        => Made(w.effects, "enqueue")
                 /\ IF Made(w.effects, "enqueue")
                    THEN LET code == Get(w.orderCode)
                             skipped == ~Made(w.effects, "transition")
                             succeeded ==
                                 /\ Made(w.effects, "transition")
                                 /\ orderState[code] = "AddingItems"
                                 /\ orderState'[code] \in
                                        {"ArrangingPayment", "PaymentSettled"}
                         IN  /\ Len(jobs') = Len(jobs) + 1
                             /\ jobs'[Len(jobs')].orderCode = code
                             /\ jobs'[Len(jobs')].state = "PENDING"
                             /\ skipped <=> orderState[code] = "ArrangingPayment"
                             /\ Made(w.effects, "addPayment")
                                    <=> skipped \/ succeeded
                             /\ w.error = "TransitionError"
                                    <=> ~skipped /\ ~succeeded
                    ELSE jobs' = jobs]_vars

\* A job runs and creates a subscription for an order whose webhook failed at
\* the transition or at the payment, and that has no payment.
C12_Witness ==
    \E w \in webhook :
        /\ w.error \in {"TransitionError", "AddPaymentError"}
        /\ payments[Get(w.orderCode)] = 0
        /\ orderState[Get(w.orderCode)] # "PaymentSettled"
        /\ \E k \in 1 .. Len(subscriptions) :
               subscriptions[k].orderCode = Get(w.orderCode)

\* C13: a run of the handler on a webhook of any type other than
\* 'setup_intent.succeeded' returns without an error and without making any
\* call, and leaves the orders, their payments and history, the queue, the
\* subscriptions and the options as they were.
C13_OtherTypesIgnored ==
    [][WebhookRun
        => \A w \in webhook' :
             w.type # "setup_intent.succeeded"
                => /\ w.error = "none"
                   /\ w.effects = <<>>
                   /\ UNCHANGED <<orderState, payments, history, jobs,
                                  subscriptions, options, now, lineRun>>
                   /\ UNCHANGED invoiceVars]_vars

\* A webhook of another type arrives with an order code, a customer and a
\* valid signature while an order has a job waiting.
C13_Witness ==
    \E w \in webhook :
        /\ w.type # "setup_intent.succeeded"
        /\ w.orderCode \in {Some(o) : o \in Orders}
        /\ w.signatureValid
        /\ w.error = "none"
        /\ Len(jobs) > 0

\* The elements a step appends to a sequence.
Added(before, after) == SubSeq(after, Len(before) + 1, Len(after))

\* What one round of the loop of job i does to the subscriptions, the order
\* history and the job; noteOnEveryFailure says whether a round that fails
\* before its first Stripe call writes the 'Failed' note too.
C14_Round(i, noteOnEveryFailure) ==
    LET code == jobs[i].orderCode
        line == jobs[i].line
        variant == OrderLines(code)[line]
        result == getSubscriptionPricing(Undefined, Some(variant), now)
        pricing == Get(result.value)
        schedule == Get(getSchedule(variant))
        created == Added(subscriptions, subscriptions')
        notes == Added(history, history')
        failed == jobs'[i].state \in {"RETRYING", "FAILED"}
        continues == jobs'[i].state = "RUNNING" /\ jobs'[i].line = line + 1
        noteOf(s) == IF s.kind = "recurring" THEN "Created"
                     ELSE "CreatedDownpayment"
        expected == [k \in 1 .. Len(created) |-> Note(code, noteOf(created[k]))]
        failure == IF failed THEN <<Note(code, "Failed")>> ELSE <<>>
    IN  /\ failed \/ continues
        /\ \A k \in 1 .. Len(created) :
               /\ created[k].job = i
               /\ created[k].orderCode = code
               /\ created[k].line = line
        /\ IF result.error # "none"
           THEN /\ created = <<>>
                /\ failed
                /\ notes = IF noteOnEveryFailure THEN failure ELSE <<>>
           ELSE /\ Len(created) <= 2
                /\ Len(created) >= 1
                     => /\ created[1].kind = "recurring"
                        /\ created[1].amount = pricing.recurringPrice
                        /\ created[1].interval = schedule.billingInterval
                        /\ created[1].intervalCount = schedule.billingCount
                        /\ created[1].proration
                /\ Len(created) = 2
                     => /\ pricing.downpayment # 0
                        /\ created[2].kind = "downpayment"
                        /\ created[2].amount = pricing.downpayment
                        /\ created[2].interval = schedule.durationInterval
                        /\ created[2].intervalCount = schedule.durationCount
                        /\ created[2].startDate = created[1].startDate
                        /\ ~created[2].proration
                /\ continues
                     <=> Len(created) = IF pricing.downpayment # 0 THEN 2 ELSE 1
                /\ notes = expected \o failure

\* Every round of the loop of every running job is as C14_Round says, and every
\* subscription is created by a running job for the line it is working on.
C14_Rounds(noteOnEveryFailure) ==
    /\ \A k \in Len(subscriptions) + 1 .. Len(subscriptions') :
           LET s == subscriptions'[k]
           IN  /\ s.job \in 1 .. Len(jobs)
               /\ jobs[s.job].state = "RUNNING"
               /\ jobs[s.job].line = s.line
               /\ jobs[s.job].attempts = s.attempt
    /\ \A i \in 1 .. Len(jobs) :
           /\ jobs[i].state = "RUNNING"
           /\ jobs[i].line <= Len(OrderLines(jobs[i].orderCode))
           /\ jobs'[i] # jobs[i]
           => C14_Round(i, noteOnEveryFailure)

\* C14 as stated: for each order line createSubscriptions works on, the
\* recurring subscription is created first, with recurringPrice, the schedule's
\* billing interval and count and proration; the downpayment subscription is
\* created exactly when the downpayment is not zero, after the recurring one,
\* with the downpayment, the schedule's duration interval and count, the same
\* start date and no proration; each subscription is followed by one history
\* note; every failure writes the 'Failed' note, throws and ends the run.
C14_EveryFailureNoted == [][C14_Rounds(TRUE)]_vars

\* C14 amended: as above, but the 'Failed' note is written exactly when a call
\* that creates a subscription fails; when the pricing of the line fails, the
\* run ends with the error and writes no note.
C14_SubscriptionsPerLine == [][C14_Rounds(FALSE)]_vars

\* A line got its recurring and its downpayment subscription, and a job failed
\* on a line whose pricing failed.
C14_Witness ==
    /\ \E k \in 1 .. Len(subscriptions) - 1 :
           /\ subscriptions[k].kind = "recurring"
           /\ subscriptions[k + 1].kind = "downpayment"
           /\ subscriptions[k + 1].job = subscriptions[k].job
           /\ subscriptions[k + 1].line = subscriptions[k].line
    /\ \E r \in lineRun : r.outcome.result.error # "none" /\ r.outcome.thrown
    /\ \E k \in 1 .. Len(history) : history[k].note = "Failed"

====
